---- MODULE Spec2Model ----
(***************************************************************************)
(* The in-memory FCM token registry and the /send-call dispatch routing of *)
(* the Auth + FCM server.                                                  *)
(*                                                                         *)
(* JavaScript values: uids, tokens and names are strings; Undefined stands *)
(* for a property that the JSON body does not carry.  Role strings are     *)
(* tuples of one-letter strings, so that toLowerCase() is computed letter  *)
(* by letter; the empty tuple is the empty or absent role (the code only   *)
(* ever tests a role for truthiness before using it).                      *)
(* A Map and a Set iterate in insertion order: both are sequences here.    *)
(***************************************************************************)
EXTENDS Integers, Sequences, FiniteSets, Bags, TLC

\* ---------------------------------------------------------------- bounds
MaxRegs == 2
MaxPending == 1
MaxConsumed == 7
MaxLogins == 1
MaxFileRegs == 3
MaxSendAlls == 1
MaxServeLogins == 2

\* ---------------------------------------------------------------- values
Undefined == "undefined"

Falsy(v) == v = "" \/ v = Undefined

Uids == {"d1", "d2"}
Tokens == {"tok-A", "tok-B"}

NoRole == << >>
RoleUser == <<"u", "s", "e", "r">>
RoleUserCap == <<"U", "s", "e", "r">>
RoleDoctorCap == <<"D", "o", "c", "t", "o", "r">>
RoleDoctorUp == <<"D", "O", "C", "T", "O", "R">>

RoleInputs == {NoRole, RoleDoctorCap}
TargetRoleInputs == {NoRole, RoleDoctorUp, RoleUserCap}
DoctorUidInputs == {"d1", Undefined}

\* bodies of POST /register: every complete body, and bodies whose uid or
\* token is empty or missing
RegisterRequests ==
  [uid : Uids, role : RoleInputs, token : Tokens]
    \cup { [uid |-> Undefined, role |-> NoRole, token |-> "tok-A"],
           [uid |-> "", role |-> RoleDoctorCap, token |-> "tok-B"],
           [uid |-> "d1", role |-> NoRole, token |-> ""],
           [uid |-> "d2", role |-> RoleDoctorCap, token |-> Undefined],
           [uid |-> Undefined, role |-> NoRole, token |-> Undefined] }

\* call context of a /send-call body: patientName, channelId, channel, roomId
ValidContexts ==
  { [patientName |-> "Jane", channelId |-> "room7", channel |-> Undefined, roomId |-> Undefined],
    [patientName |-> "Jane", channelId |-> Undefined, channel |-> "", roomId |-> "room7"] }

InvalidContexts ==
  { [patientName |-> "Jane", channelId |-> "", channel |-> Undefined, roomId |-> ""],
    [patientName |-> "", channelId |-> "room7", channel |-> "ch", roomId |-> "room7"],
    [patientName |-> Undefined, channelId |-> Undefined, channel |-> "ch", roomId |-> Undefined] }

\* bodies of POST /send-call: every routing hint with a complete call
\* context, and incomplete call contexts with or without a named doctor and
\* with or without useTopic
SendCallRequests ==
  [ctx : ValidContexts, doctorUid : DoctorUidInputs, targetRole : TargetRoleInputs,
   useTopic : BOOLEAN]
    \cup [ctx : InvalidContexts, doctorUid : DoctorUidInputs, targetRole : {NoRole},
          useTopic : BOOLEAN]

ErrorMessages == {"fcm-unavailable"}

\* new RateLimiterMemory({ points: 5, duration: 60 * 5 }), in seconds
Points == 5
Duration == 300

\* req.ip
Ips == {"ip-1", "ip-2"}

\* lengths of time that pass between two steps, in seconds
AdvanceSteps == {150, 300}

\* Passwords are tuples of letters, so that startsWith('$2') is computed;
\* the empty tuple is the empty or absent password.
NoPassword == << >>
PasswordOne == <<"p", "w", "1">>
PasswordTwo == <<"p", "w", "2">>
PasswordDollar == <<"$", "2", "p", "w">>
PasswordWrong == <<"n", "o">>

\* what bcrypt stores for a password: a string that begins with "$2"
BcryptHash(password) == <<"$", "2", "b", "$">> \o password

\* the records under oldUsers, in key order; `stored` tells how the password
\* was written when the record was made
OldUsers ==
  << [key |-> "k1", username |-> "alice", password |-> PasswordOne, stored |-> "plain"],
     [key |-> "k2", username |-> "bob", password |-> BcryptHash(PasswordTwo), stored |-> "bcrypt"],
     [key |-> "k3", username |-> "carol", password |-> PasswordDollar, stored |-> "plain"] >>

\* bodies of POST /login
LoginBodies ==
  { [username |-> "alice", password |-> PasswordOne],
    [username |-> "alice", password |-> PasswordWrong],
    [username |-> "bob", password |-> PasswordTwo],
    [username |-> "bob", password |-> PasswordWrong],
    [username |-> "carol", password |-> PasswordDollar],
    [username |-> "nobody", password |-> PasswordOne],
    [username |-> Undefined, password |-> PasswordOne],
    [username |-> "alice", password |-> NoPassword] }

\* ---------------------------------------------------------------- state
\* userTokens  the Map uid -> {token, role}, as its entries in insertion
\*             order (the timestamp of a record is written and only ever
\*             shown by GET /tokens; it is left out)
\* allTokens   the Set of tokens, as its elements in insertion order
\* pending     the /send-call handlers suspended on their transport call
\* last        the step taken last: the request handled and what the
\*             handler did or answered
\* regCount    history: number of successful registers so far
\* lastReg     history: per uid, the body of its last successful register
\* limiter     the rate limiter's memory: per key, the points consumed in
\*             the running window and the seconds until it expires
\*             (consumed 0: no entry)
\* logins      the /login handlers suspended on a database or token call,
\*             each with the history of its request: whether the limiter
\*             rejected it
\* lastLogin   the /login step taken last
\* window      history: per address, the number of /login requests since
\*             the first one of the running 5 minutes, the age of that
\*             first one, and whether one of them was answered 429
\* The file-backed variant of the server:
\* tokensFile   tokens.json: whether it exists, and its text
\* fileReqs     the /register and /send-all handlers of that variant that are
\*              suspended on a file or transport call, with their locals
\* lastFile     the step of that variant taken last
\* acked        history: the tokens whose /register was answered ok, and
\*              whether a /register was answered 500
\* fileRegCount history: number of /register requests that reached the file
\* adminReady   whether Firebase Admin could be initialized
VARIABLES userTokens, allTokens, pending, last, regCount, lastReg,
          limiter, logins, lastLogin, window,
          tokensFile, fileReqs, lastFile, acked, fileRegCount, adminReady

registryVars == <<userTokens, allTokens, pending, last, regCount, lastReg>>

loginVars == <<limiter, logins, lastLogin, window>>

fileVars == <<tokensFile, fileReqs, lastFile, acked, fileRegCount, adminReady>>

vars == <<userTokens, allTokens, pending, last, regCount, lastReg,
          limiter, logins, lastLogin, window,
          tokensFile, fileReqs, lastFile, acked, fileRegCount, adminReady>>

\* ---------------------------------------------------------------- strings
ToLowerChar(c) ==
  CASE c = "D" -> "d"
    [] c = "O" -> "o"
    [] c = "C" -> "c"
    [] c = "T" -> "t"
    [] c = "R" -> "r"
    [] c = "U" -> "u"
    [] c = "S" -> "s"
    [] c = "E" -> "e"
    [] OTHER -> c

ToLowerCase(s) == [i \in DOMAIN s |-> ToLowerChar(s[i])]

\* (x || '').toString() on a string or undefined
OrEmptyToString(v) == IF Falsy(v) THEN "" ELSE v

\* ---------------------------------------------------------------- Map / Set
MapHas(m, k) == \E i \in DOMAIN m : m[i].uid = k

\* a lookup that returns the oldest record whatever the key
MapGetFirst(m, k) == m[1]

MapGet(m, k) == m[CHOOSE i \in DOMAIN m : m[i].uid = k]

\* an insertion that never overwrites the record of a key already present
MapSetAppend(m, k, v) == Append(m, [uid |-> k, token |-> v.token, role |-> v.role])

MapSet(m, k, v) ==
  IF MapHas(m, k)
    THEN [i \in DOMAIN m |-> IF m[i].uid = k THEN [uid |-> k, token |-> v.token, role |-> v.role] ELSE m[i]]
    ELSE Append(m, [uid |-> k, token |-> v.token, role |-> v.role])

\* an array push in place of Set.add
SetAddAlways(s, t) == Append(s, t)

\* a view that keeps the first token only
SetAddFirstOnly(s, t) == IF s = << >> THEN <<t>> ELSE s

SetAdd(s, t) == IF \E i \in DOMAIN s : s[i] = t THEN s ELSE Append(s, t)

\* ---------------------------------------------------------------- events
NoCall == [kind |-> "none"]
NoBody == [ok |-> FALSE]

Init ==
  /\ userTokens = << >>
  /\ allTokens = << >>
  /\ pending = EmptyBag
  /\ last = [op |-> "init"]
  /\ regCount = 0
  /\ lastReg = [u \in Uids |-> [set |-> FALSE]]
  /\ limiter = [k \in Ips |-> [consumed |-> 0, expiresIn |-> 0]]
  /\ logins = EmptyBag
  /\ lastLogin = [op |-> "init"]
  /\ window = [ip \in Ips |-> [n |-> 0, age |-> 0, limited |-> FALSE]]
  /\ tokensFile = [exists |-> FALSE, raw |-> << >>]
  /\ fileReqs = EmptyBag
  /\ lastFile = [op |-> "init"]
  /\ acked = [tokens |-> {}, failed |-> FALSE]
  /\ fileRegCount = 0
  /\ adminReady = FALSE

\* ---------------------------------------------------------------- POST /register
RoleOrUser(role) == IF role = NoRole THEN RoleUser ELSE role

\* a handler that tests the token only
RegisterNoUidCheck(req) ==
  IF Falsy(req.token)
    THEN /\ last' = [op |-> "register", req |-> req, status |-> 400,
                     body |-> [ok |-> FALSE, error |-> <<"Missing token">>]]
         /\ UNCHANGED <<userTokens, allTokens, pending, regCount, lastReg>>
  ELSE /\ regCount < MaxRegs
       /\ userTokens' = MapSet(userTokens, req.uid,
                               [token |-> req.token, role |-> RoleOrUser(req.role)])
       /\ allTokens' = SetAdd(allTokens, req.token)
       /\ last' = [op |-> "register", req |-> req, status |-> 200,
                   body |-> [ok |-> TRUE, uid |-> req.uid, token |-> req.token]]
       /\ regCount' = regCount + 1
       /\ lastReg' = lastReg
       /\ UNCHANGED pending

Register(req) ==
  IF Falsy(req.token)
    THEN /\ last' = [op |-> "register", req |-> req, status |-> 400,
                     body |-> [ok |-> FALSE, error |-> <<"Missing token">>]]
         /\ UNCHANGED <<userTokens, allTokens, pending, regCount, lastReg>>
  ELSE IF Falsy(req.uid)
    THEN /\ last' = [op |-> "register", req |-> req, status |-> 400,
                     body |-> [ok |-> FALSE, error |-> <<"Missing uid">>]]
         /\ UNCHANGED <<userTokens, allTokens, pending, regCount, lastReg>>
  ELSE /\ regCount < MaxRegs
       /\ userTokens' = MapSet(userTokens, req.uid,
                               [token |-> req.token, role |-> RoleOrUser(req.role)])
       /\ allTokens' = SetAdd(allTokens, req.token)
       /\ last' = [op |-> "register", req |-> req, status |-> 200,
                   body |-> [ok |-> TRUE, uid |-> req.uid, token |-> req.token]]
       /\ regCount' = regCount + 1
       /\ lastReg' = [lastReg EXCEPT ![req.uid] = [set |-> TRUE, token |-> req.token, role |-> req.role]]
       /\ UNCHANGED pending

\* ---------------------------------------------------------------- POST /send-call
\* a validation that forgets the channel identifiers
InvalidContextNameOnly(c) == Falsy(c.patientName)

\* if (!patientName || (!channelId && !channel && !roomId))
InvalidContext(c) ==
  Falsy(c.patientName) \/ (Falsy(c.channelId) /\ Falsy(c.channel) /\ Falsy(c.roomId))

\* const finalDoctorUid = (doctorUid || '').toString()
FinalDoctorUid(req) == OrEmptyToString(req.doctorUid)

\* let singleDoctorToken = null; set from the record of finalDoctorUid if any
SingleDoctorToken(req, m) ==
  IF FinalDoctorUid(req) # "" /\ MapHas(m, FinalDoctorUid(req))
    THEN MapGet(m, FinalDoctorUid(req)).token
    ELSE Undefined

\* the topic hint tested before the single doctor token
SendMethodTopicFirst(singleDoctorToken, useTopic) ==
  IF useTopic THEN "topic"
  ELSE IF ~Falsy(singleDoctorToken) THEN "single"
  ELSE "tokens"

\* the topic branch dropped
SendMethodNoTopic(singleDoctorToken, useTopic) ==
  IF ~Falsy(singleDoctorToken) THEN "single" ELSE "tokens"

\* if (singleDoctorToken) ... else if (useTopic) ... else ...
SendMethod(singleDoctorToken, useTopic) ==
  IF ~Falsy(singleDoctorToken) THEN "single"
  ELSE IF useTopic THEN "topic"
  ELSE "tokens"

\* a role comparison without toLowerCase()
RoleMatchesExact(u, targetRole) == u.role = targetRole

\* (u.role || '').toLowerCase() === targetRole.toLowerCase()
RoleMatches(u, targetRole) == ToLowerCase(u.role) = ToLowerCase(targetRole)

\* .map((u) => u.token)
TokensOf(records) == [i \in DOMAIN records |-> records[i].token]

\* a full broadcast taken from the records instead of allTokens
TokenListFromRecords(req, m, all) ==
  IF req.targetRole # NoRole
    THEN TokensOf(SelectSeq(m, LAMBDA u : RoleMatches(u, req.targetRole)))
    ELSE TokensOf(m)

\* tokenList of the 'tokens' branch: the tokens of the records of the role,
\* or Array.from(allTokens)
TokenList(req, m, all) ==
  IF req.targetRole # NoRole
    THEN TokensOf(SelectSeq(m, LAMBDA u : RoleMatches(u, req.targetRole)))
    ELSE all

\* an error text that never names the role
NoTokensErrorGeneric(targetRole) == <<"No tokens registered">>

\* targetRole ? `No ${targetRole} tokens registered` : 'No tokens registered'
NoTokensError(targetRole) ==
  IF targetRole # NoRole
    THEN <<"No ", targetRole, " tokens registered">>
    ELSE <<"No tokens registered">>

\* The synchronous part of the handler, up to its first await or its early
\* return.  status 0: no response written yet, the handler is suspended on
\* the transport call `call`.  regRead: userTokens or allTokens was read.
Route(req, m, all) ==
  IF InvalidContext(req.ctx)
    THEN [status |-> 400, sendMethod |-> "none", regRead |-> FALSE, call |-> NoCall,
          finalDoctorUid |-> "", tokenList |-> << >>,
          body |-> [ok |-> FALSE, error |-> <<"Missing patientName or channel/channelId/roomId">>]]
  ELSE
    LET finalDoctorUid == FinalDoctorUid(req)
        singleDoctorToken == SingleDoctorToken(req, m)
        sendMethod == SendMethod(singleDoctorToken, req.useTopic)
        tokenList == IF sendMethod = "tokens" THEN TokenList(req, m, all) ELSE << >>
    IN
    CASE sendMethod = "single" ->
           [status |-> 0, sendMethod |-> "single", regRead |-> TRUE,
            call |-> [kind |-> "send", token |-> singleDoctorToken],
            finalDoctorUid |-> finalDoctorUid, tokenList |-> tokenList, body |-> NoBody]
      [] sendMethod = "topic" ->
           [status |-> 0, sendMethod |-> "topic", regRead |-> finalDoctorUid # "",
            call |-> [kind |-> "send", topic |-> "doctors"],
            finalDoctorUid |-> finalDoctorUid, tokenList |-> tokenList, body |-> NoBody]
      [] sendMethod = "tokens" /\ Len(tokenList) = 0 ->
           [status |-> 404, sendMethod |-> "tokens", regRead |-> TRUE, call |-> NoCall,
            finalDoctorUid |-> finalDoctorUid, tokenList |-> tokenList,
            body |-> [ok |-> FALSE, error |-> NoTokensError(req.targetRole)]]
      [] OTHER ->
           [status |-> 0, sendMethod |-> "tokens", regRead |-> TRUE,
            call |-> [kind |-> "sendEachForMulticast", tokens |-> tokenList],
            finalDoctorUid |-> finalDoctorUid, tokenList |-> tokenList, body |-> NoBody]

\* what the suspended handler still holds when the transport call settles
Awaiting(r) ==
  IF r.sendMethod = "single"
    THEN [sendMethod |-> "single", finalDoctorUid |-> r.finalDoctorUid, call |-> r.call]
    ELSE [sendMethod |-> r.sendMethod, call |-> r.call]

SendCall(req) ==
  LET r == Route(req, userTokens, allTokens) IN
  /\ r.status = 0 => BagCardinality(pending) < MaxPending
  /\ last' = [op |-> "send-call", req |-> req, status |-> r.status, body |-> r.body,
              sendMethod |-> r.sendMethod, regRead |-> r.regRead, call |-> r.call,
              tokenList |-> r.tokenList]
  /\ pending' = IF r.status = 0
                  THEN pending (+) SetToBag({Awaiting(r)})
                  ELSE pending
  /\ UNCHANGED <<userTokens, allTokens, regCount, lastReg>>

\* ---------------------------------------------------------------- transport
\* a handler that stays suspended on a second transport call
SettledRetry(p) == pending

Settled(p) == pending (-) SetToBag({p})

\* per-destination outcome vectors of sendEachForMulticast
Outcomes(n) == [1..n -> BOOLEAN]

Count(v, b) == Cardinality({i \in DOMAIN v : v[i] = b})

\* what the transport call of a suspended handler came back with
Resolved(value) == [kind |-> "resolved", value |-> value]
Rejected(message) == [kind |-> "rejected", message |-> message]

\* res.json({ ok: true, method: 'single' | 'topic', ... })
SendReply(p, messageId) ==
  [status |-> 200,
   body |-> IF p.sendMethod = "single"
              THEN [ok |-> TRUE, method |-> "single",
                    doctorUid |-> p.finalDoctorUid, messageId |-> messageId]
              ELSE [ok |-> TRUE, method |-> "topic", messageId |-> messageId,
                    topic |-> "doctors"]]

\* a multicast answered 500 as soon as one destination failed
MulticastReplyAllOrNothing(p, response) ==
  IF response.failureCount > 0
    THEN [status |-> 500, body |-> [ok |-> FALSE, error |-> <<"Internal error">>]]
    ELSE [status |-> 200,
          body |-> [ok |-> TRUE, method |-> "tokens",
                    successCount |-> response.successCount,
                    failureCount |-> response.failureCount,
                    tokensSent |-> Len(p.call.tokens)]]

\* a reply that counts the broadcast view as it is when the transport returns
MulticastReplyLive(p, response) ==
  [status |-> 200,
   body |-> [ok |-> TRUE, method |-> "tokens",
             successCount |-> response.successCount,
             failureCount |-> response.failureCount,
             tokensSent |-> Len(allTokens)]]

\* res.json({ ok: true, method: 'tokens', successCount, failureCount, tokensSent })
MulticastReply(p, response) ==
  [status |-> 200,
   body |-> [ok |-> TRUE, method |-> "tokens",
             successCount |-> response.successCount,
             failureCount |-> response.failureCount,
             tokensSent |-> Len(p.call.tokens)]]

\* a catch block that answers as if the send had gone through
ErrorReplyOk(message) ==
  [status |-> 200, body |-> [ok |-> TRUE, error |-> <<"Internal error">>, message |-> message]]

\* res.status(500).json({ ok: false, error: 'Internal error', message: err.message })
ErrorReply(message) ==
  [status |-> 500, body |-> [ok |-> FALSE, error |-> <<"Internal error">>, message |-> message]]

\* the BatchResponse of sendEachForMulticast for a vector of outcomes
BatchResponse(responses) ==
  [responses |-> responses,
   successCount |-> Count(responses, TRUE),
   failureCount |-> Count(responses, FALSE)]

\* a branch that returns without writing a response
SendResolvesSilently(p) ==
  /\ BagIn(p, pending)
  /\ p.sendMethod \in {"single", "topic"}
  /\ last' = [op |-> "send-call-returned", sendMethod |-> p.sendMethod, call |-> p.call]
  /\ pending' = Settled(p)
  /\ UNCHANGED <<userTokens, allTokens, regCount, lastReg>>

\* admin.messaging().send(...) resolves: the single or topic branch responds
SendResolves(p) ==
  /\ BagIn(p, pending)
  /\ p.sendMethod \in {"single", "topic"}
  /\ last' = [op |-> "send-call-response", status |-> SendReply(p, "msg-id").status,
              sendMethod |-> p.sendMethod, call |-> p.call,
              outcome |-> Resolved("msg-id"),
              body |-> SendReply(p, "msg-id").body]
  /\ pending' = Settled(p)
  /\ UNCHANGED <<userTokens, allTokens, regCount, lastReg>>

\* admin.messaging().sendEachForMulticast(...) resolves with its BatchResponse
MulticastResolves(p, responses) ==
  /\ BagIn(p, pending)
  /\ p.sendMethod = "tokens"
  /\ last' = [op |-> "send-call-response",
              status |-> MulticastReply(p, BatchResponse(responses)).status,
              sendMethod |-> "tokens", call |-> p.call,
              outcome |-> Resolved(responses),
              body |-> MulticastReply(p, BatchResponse(responses)).body]
  /\ pending' = Settled(p)
  /\ UNCHANGED <<userTokens, allTokens, regCount, lastReg>>

\* the awaited transport call rejects: catch (err)
TransportRejects(p, message) ==
  /\ BagIn(p, pending)
  /\ last' = [op |-> "send-call-response", status |-> ErrorReply(message).status,
              sendMethod |-> p.sendMethod, call |-> p.call,
              outcome |-> Rejected(message),
              body |-> ErrorReply(message).body]
  /\ pending' = Settled(p)
  /\ UNCHANGED <<userTokens, allTokens, regCount, lastReg>>

Next ==
  \/ \E req \in RegisterRequests : Register(req) /\ UNCHANGED <<loginVars, fileVars>>
  \/ \E req \in SendCallRequests : SendCall(req) /\ UNCHANGED <<loginVars, fileVars>>
  \/ \E p \in BagToSet(pending) : SendResolves(p) /\ UNCHANGED <<loginVars, fileVars>>
  \/ \E p \in BagToSet(pending) :
       /\ p.sendMethod = "tokens"
       /\ \E v \in Outcomes(Len(p.call.tokens)) : MulticastResolves(p, v)
       /\ UNCHANGED <<loginVars, fileVars>>
  \/ \E p \in BagToSet(pending), message \in ErrorMessages :
       TransportRejects(p, message) /\ UNCHANGED <<loginVars, fileVars>>

Spec == Init /\ [][Next]_vars

\* ---------------------------------------------------------------- rate limiter
NoEntry == [consumed |-> 0, expiresIn |-> 0]

\* every address is counted under the key of one of them
LimiterKeyShared(ip) == "ip-1"

\* rateLimiter.consume(req.ip): the key is the client address
LimiterKey(ip) == ip

\* a limiter that rejects the request that uses the last point
ConsumeOffByOne(lim, key) ==
  LET e == lim[key]
      e2 == IF e.consumed = 0
              THEN [consumed |-> 1, expiresIn |-> Duration]
              ELSE [e EXCEPT !.consumed = @ + 1]
  IN [limiter |-> [lim EXCEPT ![key] = e2], rejected |-> e2.consumed >= Points]

\* RateLimiterMemory.consume(key): the first point of a key opens its window
\* of `duration` seconds; every call adds a point, a rejected one included,
\* and does not move the end of the window; the call is rejected when the
\* points consumed exceed `points`.
Consume(lim, key) ==
  LET e == lim[key]
      e2 == IF e.consumed = 0
              THEN [consumed |-> 1, expiresIn |-> Duration]
              ELSE [e EXCEPT !.consumed = @ + 1]
  IN [limiter |-> [lim EXCEPT ![key] = e2], rejected |-> e2.consumed > Points]

\* a limiter whose entries never expire
ElapseNoExpiry(lim, dt) == lim

\* dt seconds pass: an entry whose window has ended is dropped
Elapse(lim, dt) ==
  [k \in DOMAIN lim |->
     IF lim[k].consumed = 0 \/ lim[k].expiresIn <= dt
       THEN NoEntry
       ELSE [lim[k] EXCEPT !.expiresIn = @ - dt]]

\* history: the window of an address after dt seconds
WindowElapse(w, dt) ==
  IF w.n = 0 THEN w
  ELSE IF w.age + dt >= Duration THEN [n |-> 0, age |-> 0, limited |-> w.limited]
  ELSE [w EXCEPT !.age = @ + dt]

\* history: the window of an address after one more request from it
WindowCount(w, status) ==
  IF w.n = 0 THEN [n |-> 1, age |-> 0, limited |-> status = 429]
  ELSE [w EXCEPT !.n = @ + 1, !.limited = @ \/ status = 429]

Advance(dt) ==
  /\ limiter' = Elapse(limiter, dt)
  /\ window' = [ip \in Ips |-> WindowElapse(window[ip], dt)]
  /\ UNCHANGED <<logins, lastLogin>>

\* ---------------------------------------------------------------- verifyPassword
\* storedHashOrPlain.startsWith(prefix)
StartsWith(s, prefix) ==
  Len(s) >= Len(prefix) /\ SubSeq(s, 1, Len(prefix)) = prefix

\* bcrypt.compare(candidate, hash)
BcryptCompare(candidate, hash) == hash = BcryptHash(candidate)

\* a comparison that knows nothing of hashes
VerifyPasswordPlainOnly(candidatePassword, storedHashOrPlain) ==
  candidatePassword = storedHashOrPlain

\* async function verifyPassword(candidatePassword, storedHashOrPlain);
\* every stored password of OldUsers is a string
VerifyPassword(candidatePassword, storedHashOrPlain) ==
  IF StartsWith(storedHashOrPlain, <<"$", "2">>)
    THEN BcryptCompare(candidatePassword, storedHashOrPlain)
    ELSE candidatePassword = storedHashOrPlain

\* ---------------------------------------------------------------- POST /login
\* a handler whose catch of the limiter's rejection does not return
LoginStartLookupAnyway(rejected, body) ==
  IF Falsy(body.username) \/ body.password = NoPassword
    THEN [status |-> 400, body |-> [error |-> <<"Missing username/password">>], lookup |-> FALSE]
  ELSE [status |-> 0, body |-> [error |-> << >>], lookup |-> TRUE]

\* the handler up to its database query: status 0 is a handler suspended on
\* the query
LoginStart(rejected, body) ==
  IF rejected
    THEN [status |-> 429, body |-> [error |-> <<"Too many requests">>], lookup |-> FALSE]
  ELSE IF Falsy(body.username) \/ body.password = NoPassword
    THEN [status |-> 400, body |-> [error |-> <<"Missing username/password">>], lookup |-> FALSE]
  ELSE [status |-> 0, body |-> [error |-> << >>], lookup |-> TRUE]

\* a handler that reads and validates the body before it asks the limiter
LoginValidateFirst(ip, body) ==
  LET malformed == Falsy(body.username) \/ body.password = NoPassword
      c == IF malformed
             THEN [limiter |-> limiter, rejected |-> FALSE]
             ELSE Consume(limiter, LimiterKey(ip))
      r == LoginStart(c.rejected, body)
      w == WindowCount(window[ip], r.status)
  IN /\ limiter[LimiterKey(ip)].consumed < MaxConsumed
     /\ r.lookup => BagCardinality(logins) < MaxLogins
     /\ limiter' = c.limiter
     /\ logins' = IF r.lookup
                    THEN logins (+) SetToBag({[stage |-> "lookup", body |-> body,
                                               rejected |-> c.rejected, call |-> NoCall]})
                    ELSE logins
     /\ lastLogin' = [op |-> "login", ip |-> ip, req |-> body, status |-> r.status,
                      body |-> r.body, lookup |-> r.lookup, nth |-> w.n,
                      afterLimited |-> window[ip].n = 0 /\ window[ip].limited]
     /\ window' = [window EXCEPT ![ip] = w]

Login(ip, body) ==
  LET c == Consume(limiter, LimiterKey(ip))
      r == LoginStart(c.rejected, body)
      w == WindowCount(window[ip], r.status)
  IN /\ limiter[LimiterKey(ip)].consumed < MaxConsumed
     /\ r.lookup => BagCardinality(logins) < MaxLogins
     /\ limiter' = c.limiter
     /\ logins' = IF r.lookup
                    THEN logins (+) SetToBag({[stage |-> "lookup", body |-> body,
                                               rejected |-> c.rejected, call |-> NoCall]})
                    ELSE logins
     /\ lastLogin' = [op |-> "login", ip |-> ip, req |-> body, status |-> r.status,
                      body |-> r.body, lookup |-> r.lookup, nth |-> w.n,
                      afterLimited |-> window[ip].n = 0 /\ window[ip].limited]
     /\ window' = [window EXCEPT ![ip] = w]

\* db.ref('oldUsers').orderByChild('username').equalTo(username): the records
\* of that username in key order
EqualTo(username) == SelectSeq(OldUsers, LAMBDA r : r.username = username)

\* createCustomToken(firebaseUid, additionalClaims)
CustomTokenCall(key) ==
  [kind |-> "createCustomToken", uid |-> <<"legacy_", key>>, claims |-> [legacy |-> TRUE]]

\* a handler that answers an unknown username with a status of its own
LookupOutcomeUserNotFound(body) ==
  LET val == EqualTo(body.username)
  IN IF val = << >>
       THEN [status |-> 404, found |-> FALSE, ok |-> FALSE, call |-> NoCall]
     ELSE LET userRecord == val[1]
              ok == VerifyPassword(body.password, userRecord.password)
          IN IF ~ok
               THEN [status |-> 401, found |-> TRUE, ok |-> FALSE, call |-> NoCall]
             ELSE [status |-> 0, found |-> TRUE, ok |-> TRUE,
                   call |-> CustomTokenCall(userRecord.key)]

\* a handler that forgets the result of the comparison
LookupOutcomeIgnoringOk(body) ==
  LET val == EqualTo(body.username)
  IN IF val = << >>
       THEN [status |-> 401, found |-> FALSE, ok |-> FALSE, call |-> NoCall]
     ELSE [status |-> 0, found |-> TRUE,
           ok |-> VerifyPassword(body.password, val[1].password),
           call |-> CustomTokenCall(val[1].key)]

\* the handler from the snapshot to the token call: status 0 is a handler
\* suspended on createCustomToken
LookupOutcome(body) ==
  LET val == EqualTo(body.username)
  IN IF val = << >>
       THEN [status |-> 401, found |-> FALSE, ok |-> FALSE, call |-> NoCall]
     ELSE LET userRecord == val[1]
              ok == VerifyPassword(body.password, userRecord.password)
          IN IF ~ok
               THEN [status |-> 401, found |-> TRUE, ok |-> FALSE, call |-> NoCall]
             ELSE [status |-> 0, found |-> TRUE, ok |-> TRUE,
                   call |-> CustomTokenCall(userRecord.key)]

LookupResolves(p) ==
  LET r == LookupOutcome(p.body)
  IN /\ p.stage = "lookup"
     /\ logins' = IF r.status = 0
                    THEN (logins (-) SetToBag({p}))
                           (+) SetToBag({[p EXCEPT !.stage = "token", !.call = r.call]})
                    ELSE logins (-) SetToBag({p})
     /\ lastLogin' = [op |-> "login-lookup", req |-> p.body, rejected |-> p.rejected,
                      found |-> r.found, ok |-> r.ok, status |-> r.status,
                      body |-> [error |-> IF r.status = 401 THEN <<"Invalid credentials">> ELSE << >>],
                      call |-> r.call]
     /\ UNCHANGED <<limiter, window>>

\* the token that createCustomToken makes of its arguments
CustomToken(call) == [sub |-> call.uid, claims |-> call.claims]

TokenResolves(p) ==
  /\ p.stage = "token"
  /\ logins' = logins (-) SetToBag({p})
  /\ lastLogin' = [op |-> "login-response", req |-> p.body, rejected |-> p.rejected,
                   status |-> 200, body |-> [token |-> CustomToken(p.call)]]
  /\ UNCHANGED <<limiter, window>>

\* the database query or createCustomToken rejects: the catch of the handler
CollaboratorRejects(p) ==
  /\ logins' = logins (-) SetToBag({p})
  /\ lastLogin' = [op |-> "login-error", req |-> p.body, rejected |-> p.rejected,
                   stage |-> p.stage, status |-> 500,
                   body |-> [error |-> <<"Internal error">>]]
  /\ UNCHANGED <<limiter, window>>

NextLogin ==
  \/ \E ip \in Ips, body \in LoginBodies : Login(ip, body) /\ UNCHANGED <<registryVars, fileVars>>
  \/ \E dt \in AdvanceSteps : Advance(dt) /\ UNCHANGED <<registryVars, fileVars>>
  \/ \E p \in BagToSet(logins) : LookupResolves(p) /\ UNCHANGED <<registryVars, fileVars>>
  \/ \E p \in BagToSet(logins) : TokenResolves(p) /\ UNCHANGED <<registryVars, fileVars>>
  \/ \E p \in BagToSet(logins) : CollaboratorRejects(p) /\ UNCHANGED <<registryVars, fileVars>>

SpecLogin == Init /\ [][NextLogin]_vars

\* ================================================================ file-backed variant
\* bodies of POST /register of the file-backed variant: the token under one
\* of the accepted names, or in the query string, or nowhere
NoFields ==
  [token |-> Undefined, fcmToken |-> Undefined, registrationToken |-> Undefined,
   deviceToken |-> Undefined, queryToken |-> Undefined]

FileRegisterRequests ==
  { [NoFields EXCEPT !.token = "tok-A"],
    [NoFields EXCEPT !.token = "tok-B"],
    [NoFields EXCEPT !.token = "", !.fcmToken = "tok-A"],
    [NoFields EXCEPT !.queryToken = "tok-B"],
    [NoFields EXCEPT !.token = ""],
    NoFields }

\* (req.body && (req.body.token || req.body.fcmToken ||
\*   req.body.registrationToken || req.body.deviceToken)) || req.query.token
RequestToken(req) ==
  IF ~Falsy(req.token) THEN req.token
  ELSE IF ~Falsy(req.fcmToken) THEN req.fcmToken
  ELSE IF ~Falsy(req.registrationToken) THEN req.registrationToken
  ELSE IF ~Falsy(req.deviceToken) THEN req.deviceToken
  ELSE req.queryToken

\* JSON.stringify(tokens, null, 2): the text of an array of strings
JsonStringify(tokens) == <<"[">> \o tokens \o <<"]">>

\* JSON.parse(raw) of such a text
JsonParse(raw) == SubSeq(raw, 2, Len(raw) - 1)

\* readTokens(): [] for a missing file (ENOENT), JSON.parse(raw || '[]')
\* otherwise
ReadTokens(f) ==
  IF ~f.exists THEN << >>
  ELSE JsonParse(IF f.raw = << >> THEN <<"[", "]">> ELSE f.raw)

\* a test that never finds the token
IncludesNever(tokens, token) == FALSE

\* tokens.includes(token)
Includes(tokens, token) == \E i \in DOMAIN tokens : tokens[i] = token

\* a suspended handler of the file-backed variant and its locals
FileHandler(op, pc, token, tokens) ==
  [op |-> op, pc |-> pc, token |-> token, tokens |-> tokens]

FileSettled(h) == fileReqs (-) SetToBag({h})

FileMoved(h, h2) == (fileReqs (-) SetToBag({h})) (+) SetToBag({h2})

\* POST /register up to its await of readTokens()
FileRegister(req) ==
  LET token == RequestToken(req)
  IN IF Falsy(token)
       THEN /\ lastFile' = [op |-> "register", status |-> 400, req |-> req]
            /\ UNCHANGED <<tokensFile, fileReqs, acked, fileRegCount, adminReady>>
     ELSE /\ fileRegCount < MaxFileRegs
          /\ fileRegCount' = fileRegCount + 1
          /\ fileReqs' = fileReqs (+) SetToBag({FileHandler("register", "read", token, << >>)})
          /\ lastFile' = [op |-> "register", status |-> 0, req |-> req]
          /\ UNCHANGED <<tokensFile, acked, adminReady>>

\* readTokens() resolves in /register: the token is already there and the
\* handler answers, or it is pushed and the handler calls writeTokens
RegisterReadResolves(h) ==
  LET tokens == ReadTokens(tokensFile)
  IN /\ h.op = "register" /\ h.pc = "read"
     /\ IF Includes(tokens, h.token)
          THEN /\ fileReqs' = FileSettled(h)
               /\ acked' = [acked EXCEPT !.tokens = @ \cup {h.token}]
               /\ lastFile' = [op |-> "register-response", status |-> 200,
                               body |-> [ok |-> TRUE, token |-> h.token],
                               read |-> tokens, wrote |-> FALSE]
          ELSE /\ fileReqs' = FileMoved(h, FileHandler("register", "write", h.token,
                                                       Append(tokens, h.token)))
               /\ lastFile' = [op |-> "register-read", read |-> tokens, token |-> h.token]
               /\ UNCHANGED acked
     /\ UNCHANGED <<tokensFile, fileRegCount, adminReady>>

\* fs.writeFile opens tokens.json for writing, which empties it
WriteOpens(h) ==
  /\ h.op = "register" /\ h.pc = "write"
  /\ tokensFile' = [exists |-> TRUE, raw |-> << >>]
  /\ fileReqs' = FileMoved(h, [h EXCEPT !.pc = "writing"])
  /\ lastFile' = [op |-> "register-open", token |-> h.token]
  /\ UNCHANGED <<acked, fileRegCount, adminReady>>

\* fs.writeFile resolves: the text of the handler's array is the file, and
\* the handler answers
WriteResolves(h) ==
  /\ h.op = "register" /\ h.pc = "writing"
  /\ tokensFile' = [exists |-> TRUE, raw |-> JsonStringify(h.tokens)]
  /\ fileReqs' = FileSettled(h)
  /\ acked' = [acked EXCEPT !.tokens = @ \cup {h.token}]
  /\ lastFile' = [op |-> "register-response", status |-> 200,
                  body |-> [ok |-> TRUE, token |-> h.token],
                  read |-> SubSeq(h.tokens, 1, Len(h.tokens) - 1), wrote |-> TRUE]
  /\ UNCHANGED <<fileRegCount, adminReady>>

\* readFile or writeFile rejects in /register: catch (err)
RegisterFileRejects(h) ==
  /\ h.op = "register"
  /\ fileReqs' = FileSettled(h)
  /\ acked' = [acked EXCEPT !.failed = TRUE]
  /\ lastFile' = [op |-> "register-response", status |-> 500,
                  body |-> [error |-> <<"could not save token">>],
                  read |-> << >>, wrote |-> FALSE]
  /\ UNCHANGED <<tokensFile, fileRegCount, adminReady>>

\* the /send-all handlers in progress
SendAlls == [h \in {g \in BagToSet(fileReqs) : g.op = "send-all"} |-> CopiesIn(h, fileReqs)]

\* POST /send-all up to its await of readTokens(); `initialized` is what
\* initFirebaseAdminIfNeeded() achieves when Firebase Admin is not yet
\* initialized (FIREBASE_SERVICE_ACCOUNT set and well-formed, or not)
SendAll(initialized) ==
  LET ready == adminReady \/ initialized
  IN /\ adminReady' = ready
     /\ IF ~ready
          THEN /\ lastFile' = [op |-> "send-all", status |-> 500,
                               body |-> [error |-> <<"Firebase Admin not initialized">>]]
               /\ UNCHANGED fileReqs
          ELSE /\ BagCardinality(SendAlls) < MaxSendAlls
               /\ fileReqs' = fileReqs (+) SetToBag({FileHandler("send-all", "read", "", << >>)})
               /\ lastFile' = [op |-> "send-all", status |-> 0, body |-> [error |-> << >>]]
     /\ UNCHANGED <<tokensFile, acked, fileRegCount>>

\* readTokens() resolves in /send-all: 400 for an empty list, otherwise one
\* send per token, all awaited together
SendAllReadResolves(h) ==
  LET tokens == ReadTokens(tokensFile)
  IN /\ h.op = "send-all" /\ h.pc = "read"
     /\ IF Len(tokens) = 0
          THEN /\ fileReqs' = FileSettled(h)
               /\ lastFile' = [op |-> "send-all-response", status |-> 400,
                               body |-> [error |-> <<"no tokens registered">>],
                               tokens |-> tokens]
          ELSE /\ fileReqs' = FileMoved(h, FileHandler("send-all", "send", "", tokens))
               /\ lastFile' = [op |-> "send-all-read", tokens |-> tokens,
                               messages |-> [i \in DOMAIN tokens |-> [token |-> tokens[i]]]]
     /\ UNCHANGED <<tokensFile, acked, fileRegCount, adminReady>>

\* results that leave the failed sends out
SendAllResultsOfSuccesses(tokens, outcomes) ==
  SelectSeq([i \in DOMAIN tokens |->
               IF outcomes[i]
                 THEN [response |-> <<"msg-", tokens[i]>>]
                 ELSE [error |-> "fcm-unavailable"]],
            LAMBDA r : "response" \in DOMAIN r)

\* Promise.all(messages.map(m => send(m).catch(err => ({ error: ... })))):
\* per message, the message id the transport gave or an error entry
SendAllResults(tokens, outcomes) ==
  [i \in DOMAIN tokens |->
     IF outcomes[i]
       THEN [response |-> <<"msg-", tokens[i]>>]
       ELSE [error |-> "fcm-unavailable"]]

\* every send of a /send-all has settled
SendAllSettles(h, outcomes) ==
  /\ h.op = "send-all" /\ h.pc = "send"
  /\ fileReqs' = FileSettled(h)
  /\ lastFile' = [op |-> "send-all-response", status |-> 200,
                  body |-> [ok |-> TRUE, results |-> SendAllResults(h.tokens, outcomes)],
                  tokens |-> h.tokens, outcomes |-> outcomes]
  /\ UNCHANGED <<tokensFile, acked, fileRegCount, adminReady>>

\* readFile rejects in /send-all: catch (err)
SendAllReadRejects(h) ==
  /\ h.op = "send-all" /\ h.pc = "read"
  /\ fileReqs' = FileSettled(h)
  /\ lastFile' = [op |-> "send-all-response", status |-> 500,
                  body |-> [error |-> <<"EACCES">>], tokens |-> << >>]
  /\ UNCHANGED <<tokensFile, acked, fileRegCount, adminReady>>

NextFile ==
  \/ \E req \in FileRegisterRequests : FileRegister(req) /\ UNCHANGED <<registryVars, loginVars>>
  \/ \E h \in BagToSet(fileReqs) : RegisterReadResolves(h) /\ UNCHANGED <<registryVars, loginVars>>
  \/ \E h \in BagToSet(fileReqs) : WriteOpens(h) /\ UNCHANGED <<registryVars, loginVars>>
  \/ \E h \in BagToSet(fileReqs) : WriteResolves(h) /\ UNCHANGED <<registryVars, loginVars>>
  \/ \E h \in BagToSet(fileReqs) : RegisterFileRejects(h) /\ UNCHANGED <<registryVars, loginVars>>
  \/ \E initialized \in BOOLEAN : SendAll(initialized) /\ UNCHANGED <<registryVars, loginVars>>
  \/ \E h \in BagToSet(fileReqs) : SendAllReadResolves(h) /\ UNCHANGED <<registryVars, loginVars>>
  \/ \E h \in BagToSet(fileReqs) :
       /\ h.pc = "send"
       /\ \E outcomes \in Outcomes(Len(h.tokens)) : SendAllSettles(h, outcomes)
       /\ UNCHANGED <<registryVars, loginVars>>
  \/ \E h \in BagToSet(fileReqs) : SendAllReadRejects(h) /\ UNCHANGED <<registryVars, loginVars>>

SpecFile == Init /\ [][NextFile]_vars

\* ================================================================ the server under fair collaborators
\* requests of the three endpoints: one body for each way a request can go
ServeRegisterRequests ==
  { [uid |-> "d1", role |-> RoleDoctorCap, token |-> "tok-A"] }

ServeContext ==
  [patientName |-> "Jane", channelId |-> "room7", channel |-> Undefined, roomId |-> Undefined]

ServeSendCallRequests ==
  { [ctx |-> ServeContext, doctorUid |-> "d1", targetRole |-> NoRole, useTopic |-> FALSE],
    [ctx |-> ServeContext, doctorUid |-> Undefined, targetRole |-> NoRole, useTopic |-> TRUE],
    [ctx |-> ServeContext, doctorUid |-> Undefined, targetRole |-> NoRole, useTopic |-> FALSE] }

ServeLoginBodies ==
  { [username |-> "bob", password |-> PasswordTwo],
    [username |-> "alice", password |-> PasswordWrong] }

\* the registries these requests can build
ServeRegistries ==
  { [m |-> << >>, all |-> << >>],
    [m |-> <<[uid |-> "d1", token |-> "tok-A", role |-> RoleDoctorCap]>>, all |-> <<"tok-A">>] }

\* the handlers these requests can leave suspended on a transport call
ServeCalls ==
  { Awaiting(r) :
      r \in { x \in { Route(req, g.m, g.all) :
                        req \in ServeSendCallRequests, g \in ServeRegistries } :
               x.status = 0 } }

\* the handlers these requests can leave suspended on the database or on
\* the token issuance
ServeLookups ==
  { [stage |-> "lookup", body |-> body, rejected |-> FALSE, call |-> NoCall] :
      body \in ServeLoginBodies }

ServeLogins ==
  ServeLookups \cup
    { [q EXCEPT !.stage = "token", !.call = LookupOutcome(q.body).call] :
        q \in { x \in ServeLookups : LookupOutcome(x.body).status = 0 } }

\* the transport call of a suspended dispatch returns or fails
TransportSettles(p) ==
  /\ BagIn(p, pending)
  /\ \/ SendResolves(p)
     \/ \E v \in Outcomes(IF p.sendMethod = "tokens" THEN Len(p.call.tokens) ELSE 0) :
          MulticastResolves(p, v)
     \/ \E message \in ErrorMessages : TransportRejects(p, message)
  /\ UNCHANGED <<loginVars, fileVars>>

\* the database query or the token issuance of a suspended login returns
\* or fails
CollaboratorSettles(q) ==
  /\ BagIn(q, logins)
  /\ \/ LookupResolves(q)
     \/ TokenResolves(q)
     \/ CollaboratorRejects(q)
  /\ UNCHANGED <<registryVars, fileVars>>

NextServe ==
  \/ \E req \in ServeRegisterRequests : Register(req) /\ UNCHANGED <<loginVars, fileVars>>
  \/ \E req \in ServeSendCallRequests : SendCall(req) /\ UNCHANGED <<loginVars, fileVars>>
  \/ \E p \in BagToSet(pending) : TransportSettles(p)
  \/ \E body \in ServeLoginBodies :
       /\ limiter["ip-1"].consumed < MaxServeLogins
       /\ Login("ip-1", body)
       /\ UNCHANGED <<registryVars, fileVars>>
  \/ \E q \in BagToSet(logins) : CollaboratorSettles(q)

\* every collaborator call eventually returns or fails
FairCollaborators ==
  /\ \A p \in ServeCalls : WF_vars(TransportSettles(p))
  /\ \A q \in ServeLogins : WF_vars(CollaboratorSettles(q))

SpecServe == Init /\ [][NextServe]_vars /\ FairCollaborators

\* ---------------------------------------------------------------- properties
EmptyOrAbsent == {"", Undefined}

\* the body carries a patientName and at least one channel-like identifier
PassesValidation(req) ==
  /\ req.ctx.patientName \notin EmptyOrAbsent
  /\ \/ req.ctx.channelId \notin EmptyOrAbsent
     \/ req.ctx.channel \notin EmptyOrAbsent
     \/ req.ctx.roomId \notin EmptyOrAbsent

\* the request just handled is a POST /send-call; the registry is still the
\* one its handler saw, because every other step overwrites `last`
SendCallHandled == last.op = "send-call"

Registered(uid) == uid \in Uids /\ lastReg[uid].set

RecordsOf(uid) == {i \in DOMAIN userTokens : userTokens[i].uid = uid}

Occurrences(list, t) == Cardinality({i \in DOMAIN list : list[i] = t})

UpperLower == {<<"D", "d">>, <<"O", "o">>, <<"C", "c">>, <<"T", "t">>, <<"R", "r">>,
               <<"U", "u">>, <<"S", "s">>, <<"E", "e">>}

SameLetter(a, b) == a = b \/ <<a, b>> \in UpperLower \/ <<b, a>> \in UpperLower

EqualIgnoringCase(a, b) ==
  Len(a) = Len(b) /\ \A i \in DOMAIN a : SameLetter(a[i], b[i])

\* C1: the registry holds exactly one record per uid that registered
\* successfully and none for any other uid; the record carries the token of
\* the last successful register of that uid and its role, "user" when that
\* register gave none.
C1_OneRecordPerUidLatestWins ==
  /\ \A i \in DOMAIN userTokens : userTokens[i].uid \in Uids
  /\ \A uid \in Uids :
       IF lastReg[uid].set
         THEN /\ Cardinality(RecordsOf(uid)) = 1
              /\ \A i \in RecordsOf(uid) :
                   /\ userTokens[i].token = lastReg[uid].token
                   /\ userTokens[i].role =
                        IF lastReg[uid].role = NoRole THEN RoleUser ELSE lastReg[uid].role
         ELSE RecordsOf(uid) = {}

\* one uid registered twice, with two different tokens
C1_Witness == regCount = 2 /\ Len(userTokens) = 1 /\ Len(allTokens) = 2

\* C2: a /send-call that passes validation and names a registered uid is
\* routed `single`, whatever targetRole and useTopic are.
C2_RegisteredDoctorIsSingle ==
  (SendCallHandled /\ PassesValidation(last.req) /\ Registered(last.req.doctorUid))
    => last.sendMethod = "single"

\* a single dispatch although useTopic and targetRole were both given, with
\* another uid in the registry
C2_Witness ==
  /\ SendCallHandled /\ last.sendMethod = "single"
  /\ last.req.useTopic /\ last.req.targetRole # NoRole
  /\ Len(userTokens) = 2

\* C3: the destination of a `single` dispatch is the token of the latest
\* registration of the named uid.
C3_SingleDestinationIsLatestToken ==
  (SendCallHandled /\ last.sendMethod = "single")
    => /\ Registered(last.req.doctorUid)
       /\ last.call = [kind |-> "send", token |-> lastReg[last.req.doctorUid].token]

\* a single dispatch to a uid that has replaced its first token
C3_Witness ==
  /\ SendCallHandled /\ last.sendMethod = "single"
  /\ Len(userTokens) = 1 /\ Len(allTokens) = 2
  /\ last.call.token = allTokens[2]

\* C4: the broadcast view holds exactly the tokens of the current records.
C4_BroadcastViewIsCurrentTokens ==
  {allTokens[i] : i \in DOMAIN allTokens} = {userTokens[i].token : i \in DOMAIN userTokens}

\* C5: the broadcast view holds no destination twice and is no larger than
\* the number of successful registers.
C5_BroadcastViewDistinctAndBounded ==
  /\ \A i, j \in DOMAIN allTokens : allTokens[i] = allTokens[j] => i = j
  /\ Len(allTokens) <= regCount

\* two uids registered with the same token
C5_Witness ==
  /\ Len(userTokens) = 2 /\ userTokens[1].token = userTokens[2].token
  /\ Len(allTokens) = 1

\* C6: a valid /send-call naming an unregistered uid, without useTopic and
\* targetRole, is routed `tokens` with the whole broadcast view as its
\* destination list, and is answered 404 only if that view is empty.
C6_MissFallsThroughToBroadcast ==
  ( /\ SendCallHandled /\ PassesValidation(last.req)
    /\ last.req.doctorUid \in Uids /\ ~Registered(last.req.doctorUid)
    /\ ~last.req.useTopic /\ last.req.targetRole = NoRole )
    => /\ last.sendMethod = "tokens"
       /\ last.tokenList = allTokens
       /\ IF allTokens = << >>
            THEN last.status = 404 /\ last.call = NoCall
            ELSE /\ last.status = 0
                 /\ last.call = [kind |-> "sendEachForMulticast", tokens |-> allTokens]

\* a named but unregistered uid, and a multicast to the tokens of the others
C6_Witness ==
  /\ SendCallHandled /\ PassesValidation(last.req)
  /\ last.req.doctorUid \in Uids /\ ~Registered(last.req.doctorUid)
  /\ ~last.req.useTopic /\ last.req.targetRole = NoRole
  /\ last.call.kind = "sendEachForMulticast"

\* C7: a valid /send-call with useTopic and no registered doctorUid is sent
\* to the topic "doctors", whatever targetRole and the registry are; an
\* empty registry does not make it a 404.
C7_TopicIndependentOfRegistry ==
  (SendCallHandled /\ PassesValidation(last.req) /\ last.req.useTopic
     /\ ~Registered(last.req.doctorUid))
    => /\ last.sendMethod = "topic"
       /\ last.status = 0
       /\ last.call = [kind |-> "send", topic |-> "doctors"]

\* a topic dispatch with a targetRole and an empty registry
C7_Witness ==
  /\ SendCallHandled /\ last.sendMethod = "topic"
  /\ last.req.targetRole # NoRole
  /\ userTokens = << >> /\ allTokens = << >>

\* C8: a `tokens` dispatch with nothing to send to is answered 404 with a
\* message that names the role when one was given, and calls no transport.
C8_NoRecipientsIs404 ==
  ( /\ SendCallHandled /\ last.sendMethod = "tokens"
    /\ IF last.req.targetRole # NoRole
         THEN \A i \in DOMAIN userTokens :
                ~EqualIgnoringCase(userTokens[i].role, last.req.targetRole)
         ELSE allTokens = << >> )
    => /\ last.status = 404
       /\ last.call = NoCall
       /\ last.body.ok = FALSE
       /\ last.body.error =
            IF last.req.targetRole # NoRole
              THEN <<"No ", last.req.targetRole, " tokens registered">>
              ELSE <<"No tokens registered">>

\* a 404 for a role nobody has, in a registry that is not empty
C8_Witness ==
  /\ SendCallHandled /\ last.status = 404
  /\ last.req.targetRole # NoRole
  /\ userTokens # << >>

\* C9: with a targetRole, the destination list has one entry for each record
\* whose role equals targetRole ignoring case, and no other entry; without
\* one it is the broadcast view.
C9_RoleFilterIgnoresCase ==
  (SendCallHandled /\ last.sendMethod = "tokens")
    => IF last.req.targetRole # NoRole
         THEN \A t \in Tokens :
                Occurrences(last.tokenList, t) =
                  Cardinality({i \in DOMAIN userTokens :
                                 /\ userTokens[i].token = t
                                 /\ EqualIgnoringCase(userTokens[i].role, last.req.targetRole)})
         ELSE last.tokenList = allTokens

\* a dispatch to role "User" that reaches the uid registered without a role
\* and not the one registered as "Doctor"
C9_Witness ==
  /\ SendCallHandled /\ last.sendMethod = "tokens" /\ last.status = 0
  /\ last.req.targetRole = RoleUserCap
  /\ Len(userTokens) = 2 /\ Len(last.tokenList) = 1
  /\ \E uid \in Uids : lastReg[uid].set /\ lastReg[uid].role = NoRole

\* C10: a /send-call without a patientName, or without any of channelId,
\* channel and roomId, is answered 400 before the registry is read, a send
\* method is chosen or the transport is called.
C10_InvalidRejectedFirst ==
  (SendCallHandled /\ ~PassesValidation(last.req))
    => /\ last.status = 400
       /\ ~last.regRead
       /\ last.sendMethod = "none"
       /\ last.call = NoCall

\* a rejected body that names a registered doctor and asks for the topic
C10_Witness ==
  /\ SendCallHandled /\ last.status = 400
  /\ Registered(last.req.doctorUid) /\ last.req.useTopic
  /\ last.req.ctx.patientName = "Jane"

\* the step taken last answered a /send-call whose transport call settled
SendCallAnswered == last.op = "send-call-response"

\* C11: POST /register is answered 400 exactly when uid or token is empty
\* or absent, and a register answered 400 changes neither the records nor
\* the broadcast view.
C11_RegisterFailsOnlyOnMissingField ==
  [][ last'.op = "register" =>
        /\ last'.status \in {200, 400}
        /\ (last'.status = 400) =
             (last'.req.uid \in EmptyOrAbsent \/ last'.req.token \in EmptyOrAbsent)
        /\ last'.status = 400 => (userTokens' = userTokens /\ allTokens' = allTokens) ]_vars

\* a register with a token and no uid, refused while the registry holds records
C11_Witness ==
  /\ last.op = "register" /\ last.status = 400
  /\ last.req.token \in Tokens /\ last.req.uid \in EmptyOrAbsent
  /\ userTokens # << >>

\* C12: a multicast that returns its outcome vector is answered 200 with
\* the counts of the vector, however many destinations failed.
C12_PartialFailureIsOk ==
  (SendCallAnswered /\ last.sendMethod = "tokens" /\ last.outcome.kind = "resolved")
    => /\ last.status = 200
       /\ last.body.ok
       /\ last.body.method = "tokens"
       /\ last.body.successCount =
            Cardinality({i \in DOMAIN last.outcome.value : last.outcome.value[i]})
       /\ last.body.failureCount =
            Cardinality({i \in DOMAIN last.outcome.value : ~last.outcome.value[i]})
       /\ last.body.successCount + last.body.failureCount = Len(last.call.tokens)
       /\ last.body.tokensSent = Len(last.call.tokens)

\* a multicast to two destinations that both failed
C12_Witness ==
  /\ SendCallAnswered /\ last.sendMethod = "tokens" /\ last.outcome.kind = "resolved"
  /\ Len(last.call.tokens) = 2
  /\ \A i \in DOMAIN last.outcome.value : ~last.outcome.value[i]

\* C13: when the transport call of a single or topic dispatch fails, the
\* request is answered 500, the handler is gone with that one answer, and
\* the records and the broadcast view are what they were.
C13_TransportErrorIs500 ==
  [][ ( /\ last'.op = "send-call-response"
        /\ last'.sendMethod \in {"single", "topic"}
        /\ last'.outcome.kind = "rejected" )
        => /\ last'.status = 500
           /\ ~last'.body.ok
           /\ BagCardinality(pending') = BagCardinality(pending) - 1
           /\ userTokens' = userTokens
           /\ allTokens' = allTokens ]_vars

\* a failed single dispatch
C13_Witness ==
  /\ SendCallAnswered /\ last.sendMethod = "single" /\ last.outcome.kind = "rejected"
  /\ last.status = 500
  /\ userTokens # << >>

\* C14: the answer to a dispatch whose transport call threw carries a
\* generic message only, not the text of the transport's error.
C14_ErrorDetailNotInResponse ==
  (SendCallAnswered /\ last.outcome.kind = "rejected")
    => /\ last.body.error = <<"Internal error">>
       /\ "message" \in DOMAIN last.body => last.body.message # last.outcome.message

\* ================================================================ POST /login
LoginStarted == lastLogin.op = "login"

LookedUp == lastLogin.op = "login-lookup"

TokenIssued == lastLogin.op = "login-response" /\ lastLogin.status = 200

ValidLogin(body) == body.username # Undefined /\ body.username # "" /\ body.password # << >>

\* the first record under oldUsers with that username, if there is one
HasRecord(username) == \E i \in DOMAIN OldUsers : OldUsers[i].username = username

FirstRecord(username) ==
  OldUsers[CHOOSE i \in DOMAIN OldUsers :
             /\ OldUsers[i].username = username
             /\ \A j \in 1..(i - 1) : OldUsers[j].username # username]

HashedFormat(stored) == Len(stored) >= 2 /\ stored[1] = "$" /\ stored[2] = "2"

\* the comparison of the two modes: hashed for a stored secret in the hashed
\* format, identity otherwise
DualMode(candidate, stored) ==
  IF HashedFormat(stored)
    THEN stored = <<"$", "2", "b", "$">> \o candidate
    ELSE candidate = stored

\* the credentials are those of the username's record, as the comparison of
\* the two modes sees them
Verifies(body) ==
  HasRecord(body.username) /\ DualMode(body.password, FirstRecord(body.username).password)

\* the password is the one the record of the username was made with
RightPassword(body) ==
  /\ HasRecord(body.username)
  /\ LET r == FirstRecord(body.username)
     IN IF r.stored = "bcrypt"
          THEN r.password = <<"$", "2", "b", "$">> \o body.password
          ELSE r.password = body.password

\* C15: counting the requests of one address from the first one of the
\* running 5 minutes, none of the first five is answered 429 and one with
\* well-formed input goes on to the credential check, where wrong credentials
\* are answered 401 "Invalid credentials"; the sixth is answered 429.
C15_SixthAttemptIsLimited ==
  /\ (LoginStarted /\ lastLogin.nth <= Points) =>
       /\ lastLogin.status # 429
       /\ ValidLogin(lastLogin.req) => (lastLogin.lookup /\ lastLogin.status = 0)
  /\ (LoginStarted /\ lastLogin.nth = Points + 1) =>
       (lastLogin.status = 429 /\ ~lastLogin.lookup)
  /\ (LookedUp /\ ~RightPassword(lastLogin.req)) =>
       (lastLogin.status = 401 /\ lastLogin.body.error = <<"Invalid credentials">>)

C15_Witness ==
  /\ LoginStarted
  /\ lastLogin.nth = Points + 1
  /\ lastLogin.status = 429
  /\ lastLogin.req = [username |-> "alice", password |-> PasswordWrong]
  /\ window[lastLogin.ip].age = 150

\* C16: the first request of an address after a window in which it was
\* answered 429 is not answered 429 and, with well-formed input, goes on to
\* the credential check. Every credential check, whatever the limiter has
\* counted, answers 401 exactly when the credentials do not verify and
\* otherwise goes on to the token, and every token that arrives is answered
\* 200.
C16_AfterResetOnlyCredentialsCount ==
  /\ (LoginStarted /\ lastLogin.afterLimited) =>
       /\ lastLogin.nth = 1
       /\ lastLogin.status # 429
       /\ ValidLogin(lastLogin.req) => (lastLogin.lookup /\ lastLogin.status = 0)
  /\ LookedUp =>
       /\ Verifies(lastLogin.req) => lastLogin.status = 0
       /\ ~Verifies(lastLogin.req) => lastLogin.status = 401
  /\ lastLogin.op = "login-response" =>
       (lastLogin.status = 200 /\ Verifies(lastLogin.req))

C16_Witness ==
  /\ LoginStarted
  /\ lastLogin.afterLimited
  /\ lastLogin.status = 0
  /\ lastLogin.req = [username |-> "bob", password |-> PasswordTwo]
  /\ limiter[lastLogin.ip].consumed = 1

\* C17: a request that the limiter rejects is answered 429 and starts no
\* lookup: no suspended handler, no lookup, no comparison and no token
\* belongs to a rejected request.
C17_LimitedBeforeLookup ==
  /\ (LoginStarted /\ lastLogin.status = 429) => ~lastLogin.lookup
  /\ (LoginStarted /\ lastLogin.nth > Points) => lastLogin.status = 429
  /\ \A p \in BagToSet(logins) : ~p.rejected
  /\ lastLogin.op \in {"login-lookup", "login-response", "login-error"} => ~lastLogin.rejected

C17_Witness ==
  /\ LoginStarted
  /\ lastLogin.status = 429
  /\ ValidLogin(lastLogin.req)
  /\ RightPassword(lastLogin.req)
  /\ logins = EmptyBag

\* C18: a token is answered only for a request that the limiter let pass,
\* whose username has a record and whose password is the record's; its
\* subject is "legacy_" followed by the record's key and its claims are
\* legacy: true. A lookup that finds no record, or whose comparison fails,
\* is answered 401 and calls no token issuance, and no handler waits for a
\* token without these conditions.
C18_TokenOnlyForVerifiedUser ==
  /\ TokenIssued =>
       /\ ~lastLogin.rejected
       /\ RightPassword(lastLogin.req)
       /\ Verifies(lastLogin.req)
       /\ lastLogin.body.token.sub = <<"legacy_", FirstRecord(lastLogin.req.username).key>>
       /\ lastLogin.body.token.claims = [legacy |-> TRUE]
  /\ (LookedUp /\ (~lastLogin.found \/ ~lastLogin.ok)) =>
       (lastLogin.status = 401 /\ lastLogin.call.kind = "none")
  /\ (LookedUp /\ lastLogin.found) =
       (LookedUp /\ HasRecord(lastLogin.req.username))
  /\ \A p \in BagToSet(logins) :
       p.stage = "token" =>
         /\ ~p.rejected
         /\ RightPassword(p.body)
         /\ p.call.uid = <<"legacy_", FirstRecord(p.body.username).key>>
         /\ p.call.claims = [legacy |-> TRUE]

C18_Witness ==
  /\ TokenIssued
  /\ lastLogin.req = [username |-> "bob", password |-> PasswordTwo]
  /\ lastLogin.body.token = [sub |-> <<"legacy_", "k2">>, claims |-> [legacy |-> TRUE]]

\* the comparison that a lookup made: its candidate and the stored secret
Compared == LookedUp /\ lastLogin.found

\* C19 as the specification states it: verifyPassword returns the hashed
\* comparison for a stored secret of prefix "$2" and identity otherwise, and
\* a secret stored as plaintext is accepted if and only if the candidate
\* equals it.
C19_PlaintextAcceptedIffEqual ==
  Compared =>
    LET candidate == lastLogin.req.password
        r == FirstRecord(lastLogin.req.username)
    IN /\ lastLogin.ok = DualMode(candidate, r.password)
       /\ r.stored = "plain" => (lastLogin.ok = (candidate = r.password))

\* C19, amended: verifyPassword returns the hashed comparison for a stored
\* secret of prefix "$2" and identity otherwise; a secret stored as plaintext
\* that does not begin with "$2" is accepted if and only if the candidate
\* equals it.
C19_VerifyPasswordDualMode ==
  Compared =>
    LET candidate == lastLogin.req.password
        r == FirstRecord(lastLogin.req.username)
    IN /\ lastLogin.ok = DualMode(candidate, r.password)
       /\ (r.stored = "plain" /\ ~HashedFormat(r.password)) =>
            (lastLogin.ok = (candidate = r.password))

C19_Witness ==
  /\ Compared
  /\ lastLogin.req = [username |-> "alice", password |-> PasswordOne]
  /\ FirstRecord("alice").stored = "plain"
  /\ lastLogin.ok

\* C20: the points of an address grow only by a /login request of that
\* address, and such a request is answered 429 only when the points of its
\* own address exceed the quota.
C20_QuotaIsPerAddress ==
  [][ \A a \in Ips :
        limiter'[a].consumed > limiter[a].consumed =>
          /\ lastLogin'.op = "login"
          /\ lastLogin'.ip = a
          /\ lastLogin'.status = 429 =>
               (limiter'[a].consumed > Points /\ window'[a].n > Points) ]_vars

C20_Witness ==
  /\ LoginStarted
  /\ lastLogin.ip = "ip-2"
  /\ lastLogin.status = 0
  /\ limiter["ip-1"].consumed > Points
  /\ window["ip-1"].limited
  /\ limiter["ip-2"].consumed = 1

\* ================================================================ dispatch, continued
\* the suspended handlers of the strategy `tokens`
Multicasts(b) == {p \in BagToSet(b) : p.sendMethod = "tokens"}

\* C21: a /register step leaves every suspended dispatch as it is, its
\* destination list included; when a multicast returns, the outcomes are
\* those of the list the suspended handler held and tokensSent is the length
\* of that list, whatever the registry holds by then.
C21_DestinationsFixedAtSelection ==
  [][ /\ last'.op = "register" => pending' = pending
      /\ (last'.op = "send-call" /\ last'.status = 0 /\ last'.sendMethod = "tokens") =>
           /\ last'.call.tokens = last'.tokenList
           /\ \E p \in Multicasts(pending') :
                p.call = last'.call /\ pending' = pending (+) SetToBag({p})
      /\ (last'.op = "send-call-response" /\ last'.sendMethod = "tokens"
            /\ last'.outcome.kind = "resolved") =>
           \E p \in Multicasts(pending) :
             /\ pending' = pending (-) SetToBag({p})
             /\ last'.call = p.call
             /\ Len(last'.outcome.value) = Len(p.call.tokens)
             /\ last'.body.tokensSent = Len(p.call.tokens) ]_vars

\* a full broadcast selected when only tok-A was registered returns after a
\* second uid has registered tok-B
C21_Witness ==
  /\ SendCallAnswered
  /\ last.sendMethod = "tokens"
  /\ last.outcome.kind = "resolved"
  /\ last.call.tokens = <<"tok-A">>
  /\ last.body.tokensSent = 1
  /\ allTokens = <<"tok-A", "tok-B">>
  /\ Len(userTokens) = 2
  /\ \A i \in DOMAIN userTokens : userTokens[i].role = RoleUser

\* the transport call that belongs to a strategy
CallOf(sendMethod, call) ==
  CASE sendMethod = "single" -> call.kind = "send" /\ "token" \in DOMAIN call
    [] sendMethod = "topic" -> call.kind = "send" /\ "topic" \in DOMAIN call
    [] sendMethod = "tokens" -> call.kind = "sendEachForMulticast"
    [] OTHER -> FALSE

\* C22: a /send-call answered at once is answered 400 or 404 and makes no
\* transport call; any other makes the one call of its strategy and is
\* suspended on it; when that call returns the request is answered once,
\* 200 or 500, its handler is gone, and no other call is made.
C22_OneTransportCallOneResponse ==
  [][ /\ last'.op = "send-call" =>
           \/ /\ last'.status \in {400, 404}
              /\ last'.call.kind = "none"
              /\ pending' = pending
           \/ /\ last'.status = 0
              /\ CallOf(last'.sendMethod, last'.call)
              /\ \E p \in BagToSet(pending') :
                   /\ p.call = last'.call
                   /\ p.sendMethod = last'.sendMethod
                   /\ pending' = pending (+) SetToBag({p})
      /\ last'.op = "send-call-response" =>
           /\ last'.status \in {200, 500}
           /\ \E p \in BagToSet(pending) :
                /\ p.call = last'.call
                /\ pending' = pending (-) SetToBag({p})
           /\ BagCardinality(pending') = BagCardinality(pending) - 1
      /\ last'.op = "register" => pending' = pending ]_vars

C22_Witness ==
  /\ SendCallAnswered
  /\ last.sendMethod = "topic"
  /\ last.status = 200
  /\ pending = EmptyBag

\* C24: the destination list of a role-filtered dispatch holds no
\* destination twice.
C24_RoleFilteredListDistinct ==
  (SendCallHandled /\ last.sendMethod = "tokens" /\ last.req.targetRole # NoRole) =>
    \A i, j \in DOMAIN last.tokenList : last.tokenList[i] = last.tokenList[j] => i = j

\* C28: the token of every current record is in the broadcast view; a full
\* broadcast holds the token of every current record, and every token of a
\* role-filtered list is in the broadcast view.
C28_RecordsWithinBroadcastView ==
  /\ \A i \in DOMAIN userTokens : \E j \in DOMAIN allTokens : allTokens[j] = userTokens[i].token
  /\ (SendCallHandled /\ last.sendMethod = "tokens" /\ last.req.targetRole = NoRole) =>
       \A i \in DOMAIN userTokens :
         \E j \in DOMAIN last.tokenList : last.tokenList[j] = userTokens[i].token
  /\ (SendCallHandled /\ last.sendMethod = "tokens" /\ last.req.targetRole # NoRole) =>
       \A i \in DOMAIN last.tokenList :
         \E j \in DOMAIN allTokens : allTokens[j] = last.tokenList[i]

\* a role-filtered dispatch to one of two registered uids, each with its token
C28_Witness ==
  /\ SendCallHandled
  /\ last.sendMethod = "tokens"
  /\ last.req.targetRole # NoRole
  /\ Len(last.tokenList) = 1
  /\ Len(userTokens) = 2
  /\ Len(allTokens) = 2
  /\ last.tokenList[1] = allTokens[2]

\* ================================================================ POST /login, continued
\* C29: every /login request of an address, whatever its body, adds one
\* point to the points of that address before it is answered: it is answered
\* 429 exactly when the points then exceed the quota, malformed or not, and
\* otherwise 400 or sent on to the lookup; so a request that gets past the
\* limiter is one of the first five of its window.
C29_PointConsumedBeforeValidation ==
  [][ \A a \in Ips :
        window'[a].n = window[a].n + 1 =>
          /\ lastLogin'.op = "login"
          /\ lastLogin'.ip = a
          /\ limiter'[a].consumed = limiter[a].consumed + 1
          /\ limiter'[a].consumed = window'[a].n
          /\ (lastLogin'.status = 429) = (limiter'[a].consumed > Points)
          /\ lastLogin'.status # 429 =>
               /\ window'[a].n <= Points
               /\ lastLogin'.status = (IF ValidLogin(lastLogin'.req) THEN 0 ELSE 400) ]_vars

\* a sixth request without a username, after a fifth that was answered 400
C29_Witness ==
  /\ LoginStarted
  /\ lastLogin.nth = Points + 1
  /\ lastLogin.status = 429
  /\ lastLogin.req.username = Undefined
  /\ limiter[lastLogin.ip].consumed = Points + 1

\* C30: a lookup that finds no record and a lookup whose comparison fails
\* are answered alike: 401 with the body { error: 'Invalid credentials' }.
C30_UnknownUserAndWrongPasswordAlike ==
  (LookedUp /\ (~HasRecord(lastLogin.req.username) \/ ~lastLogin.ok)) =>
    /\ lastLogin.status = 401
    /\ lastLogin.body = [error |-> <<"Invalid credentials">>]
    /\ lastLogin.call.kind = "none"

C30_Witness ==
  /\ LookedUp
  /\ ~HasRecord(lastLogin.req.username)
  /\ lastLogin.status = 401
  /\ lastLogin.body = [error |-> <<"Invalid credentials">>]

\* ================================================================ file-backed variant
SendAllAnswered == lastFile.op = "send-all-response"

NoRepeats(tokens) == \A i, j \in DOMAIN tokens : tokens[i] = tokens[j] => i = j

\* the /register handlers in progress
FileRegisters == {h \in BagToSet(fileReqs) : h.op = "register"}

\* C25: a /send-all that read a non-empty list sends one message per token
\* of that list, in its order, and is answered 200 ok with one result per
\* token: at index i the message id of the send to the i-th token, or an
\* error entry when that send failed. It is answered 400 only for an empty
\* list.
C25_SendAllResultsAligned ==
  /\ \A h \in BagToSet(fileReqs) :
       (h.op = "send-all" /\ h.pc = "send") => Len(h.tokens) > 0
  /\ lastFile.op = "send-all-read" =>
       /\ Len(lastFile.tokens) > 0
       /\ Len(lastFile.messages) = Len(lastFile.tokens)
       /\ \A i \in DOMAIN lastFile.tokens : lastFile.messages[i].token = lastFile.tokens[i]
  /\ (SendAllAnswered /\ lastFile.status = 400) => lastFile.tokens = << >>
  /\ (SendAllAnswered /\ Len(lastFile.tokens) > 0) =>
       /\ lastFile.status = 200
       /\ lastFile.body.ok
       /\ Len(lastFile.body.results) = Len(lastFile.tokens)
       /\ \A i \in DOMAIN lastFile.tokens :
            IF lastFile.outcomes[i]
              THEN lastFile.body.results[i] = [response |-> <<"msg-", lastFile.tokens[i]>>]
              ELSE DOMAIN lastFile.body.results[i] = {"error"}

\* two stored tokens, the send to the first fails and the send to the
\* second goes through
C25_Witness ==
  /\ SendAllAnswered
  /\ lastFile.status = 200
  /\ lastFile.tokens = <<"tok-A", "tok-B">>
  /\ lastFile.outcomes = <<FALSE, TRUE>>
  /\ Len(lastFile.body.results) = 2

\* C26: when no /register is in progress and none was answered 500, the
\* stored list holds the token of every /register that was answered ok.
C26_NoAcknowledgedRegistrationLost ==
  (FileRegisters = {} /\ ~acked.failed) =>
    \A t \in acked.tokens : Includes(ReadTokens(tokensFile), t)

\* C27: the stored list never holds a token twice, nor does the list a
\* handler is about to write; a handler that found its token in the list it
\* read answers without writing, and a handler writes only a list that is the
\* list it read followed by its token.
C27_StoredListHasNoRepeats ==
  /\ NoRepeats(ReadTokens(tokensFile))
  /\ \A h \in FileRegisters :
       h.pc \in {"write", "writing"} =>
         /\ NoRepeats(h.tokens)
         /\ h.tokens[Len(h.tokens)] = h.token
  /\ (lastFile.op = "register-response" /\ lastFile.status = 200) =>
       lastFile.wrote = ~Includes(lastFile.read, lastFile.body.token)

\* two handlers registering the same token have both read the empty list
\* and one of them has written
C27_Witness ==
  /\ lastFile.op = "register-response"
  /\ lastFile.wrote
  /\ lastFile.body.token = "tok-A"
  /\ tokensFile.raw = JsonStringify(<<"tok-A">>)
  /\ \E h \in FileRegisters :
       h.token = "tok-A" /\ h.pc \in {"write", "writing"} /\ h.tokens = <<"tok-A">>

\* ================================================================ responses
LoginAnswered ==
  \/ lastLogin.op = "login" /\ lastLogin.status \in {429, 400}
  \/ lastLogin.op = "login-lookup" /\ lastLogin.status = 401
  \/ lastLogin.op = "login-response" /\ lastLogin.status = 200
  \/ lastLogin.op = "login-error" /\ lastLogin.status = 500

\* C23: with collaborators that eventually return or fail, every suspended
\* dispatch is eventually answered 200 or 500 and every suspended login
\* 401, 200 or 500; a request that is not suspended is answered in the step
\* that handles it (ServeCalls and ServeLogins are all the suspended
\* requests there can be); a collaborator failure is answered 500, and the step
\* that answers it changes neither the registry nor the limiter nor any
\* other suspended request.
C23_EveryRequestAnswered ==
  /\ \A p \in ServeCalls :
       [](BagIn(p, pending) =>
            <>(/\ SendCallAnswered
               /\ last.call = p.call
               /\ last.sendMethod = p.sendMethod
               /\ last.status \in {200, 500}))
  /\ \A q \in ServeLogins :
       [](BagIn(q, logins) =>
            <>(/\ LoginAnswered
               /\ lastLogin.op # "login"
               /\ lastLogin.req = q.body))
  /\ [](BagToSet(pending) \subseteq ServeCalls /\ BagToSet(logins) \subseteq ServeLogins)
  /\ [](last.op = "register" => last.status \in {200, 400})
  /\ [](SendCallHandled =>
          (last.status \in {400, 404} \/ \E p \in BagToSet(pending) : p.call = last.call))
  /\ []((SendCallAnswered /\ last.outcome.kind = "rejected") => last.status = 500)
  /\ [](lastLogin.op = "login-error" => lastLogin.status = 500)
  /\ [][ (last'.op = "send-call-response" /\ last'.status = 500 /\ pending' # pending) =>
           /\ userTokens' = userTokens /\ allTokens' = allTokens
           /\ BagCardinality(pending') = BagCardinality(pending) - 1
           /\ UNCHANGED loginVars ]_vars
  /\ [][ (lastLogin'.op = "login-error" /\ logins' # logins) =>
           /\ limiter' = limiter
           /\ BagCardinality(logins') = BagCardinality(logins) - 1
           /\ UNCHANGED registryVars ]_vars

\* a dispatch answered 500 because its transport call failed, and the
\* second login of the address answered with a token
C23_Witness ==
  /\ lastLogin.op = "login-response"
  /\ lastLogin.status = 200
  /\ limiter["ip-1"].consumed = 2
  /\ SendCallAnswered
  /\ last.status = 500
  /\ last.sendMethod = "single"

====
